---- MODULE Spec2Model ----
(***************************************************************************)
(* Token cache and renewal manager of ghappauth                            *)
(* (internal/auth/token_manager.go): one TokenManager shared by several    *)
(* goroutines.  Time is counted in minutes; a token value is identified by *)
(* the sequence number of the exchange that produced it.                   *)
(***************************************************************************)
EXTENDS Integers, Sequences, FiniteSets, TLC

\* ---- bounds of the model ----
NumThreads == 2
MaxTokens == 3
MaxTime == 1
MaxLife == 2
MaxBuf == 1
MaxCtorBuf == 6
MaxStatus == 599
MaxCfgRetries == 3
MaxIdLen == 2
MaxRetryDelay == 2
MaxMultiplier == 3
MaxCalls == 2
MaxLiveTokens == 2

\* ---- program constants ----
DefaultRenewBuffer == 5
DefaultMaxRetries == 3
DefaultRetryDelay == 1
DefaultBackoffMultiplier == 2
StatusCreated == 201

Threads == 1..NumThreads
InstallationID == "67890"
Lifetimes == 1..MaxLife
Buffers == (0 - MaxBuf)..MaxBuf
NoThread == 0

\* *types.GitHubAppToken: nil, or a token value with its ExpiresAt
NilToken == [id |-> 0, expiresAt |-> 0]

NoStats == [total |-> -1, renew_buffer |-> << >>, details |-> << >>, afterClear |-> FALSE]

VARIABLES
    now,          \* time.Now()
    renewBuffer,  \* TokenManager.renewBuffer
    cache,        \* TokenManager.cache: InstallationID -> *cachedToken
    mutex,        \* TokenManager.mutex (sync.RWMutex)
    mutexW,       \* TokenManager.mutex: the writer that has announced itself (RWMutex.w)
    entries,      \* the cachedToken objects ever allocated, by address
    issued,       \* number of tokens the platform has issued so far
    pc,           \* position of each goroutine
    cached,       \* GetToken/renewToken: local `cached`
    local,        \* local token: newToken / token, or the token read at the check
    ret,          \* returned *types.GitHubAppToken
    err,          \* returned error is non-nil
    stats,        \* map returned by GetCacheStats
    retBuf,       \* value returned by GetRenewBuffer
    path,         \* which branch the GetToken call took
    exch,         \* exchanges this call has started
    mark,         \* tokens issued before the last finished invalidation, at call start
    invMark,      \* tokens issued when the last InvalidateToken/ClearCache finished
    lastSet,      \* buffer given to NewTokenManager or to the last SetRenewBuffer
    clearedSince, \* ClearCache has finished and nothing was inserted since
    xTok, xBuf, xNow,  \* inputs of one IsTokenExpired call
    xRes,              \* its result, once it has returned
    ctor,         \* NewTokenManager: its argument, and whether it has returned
    sCode, sRes,  \* argument of one shouldRetry call, and its result
    hClient,      \* HTTPClient.config
    hReq,         \* the RequestConfig of one DoRequest call and what the caller did to it
    hPc,          \* position of the DoRequest call
    hN,           \* retry.Do: attempts already counted
    hHist,        \* outcome of every attempt made so far
    hCancelled,   \* ctx.Done() is closed
    hResp,        \* doRequest: resp
    hErr,         \* doRequest: returned error
    hOut,         \* DoRequest: returned error and state of `result`
    hDelays,      \* retry.Do: the delays slept so far
    hOpen,        \* attempts whose response body is open
    gAuth,        \* the GitHubAppAuth instance: whether its URLs are well formed
    gCall,        \* GetInstallationToken calls started so far
    gPc,          \* position of the GetInstallationToken call
    gJwt,         \* the call that signed the assertion in `jwt`, 0 when none
    gRes,         \* what GetInstallationToken returned
    aCfg,         \* argument of one NewGitHubAppAuth call
    aRes          \* what it returned

vars == << now, renewBuffer, cache, mutex, mutexW, entries, issued, pc, cached,
           local, ret, err, stats, retBuf, path, exch, mark, invMark,
           lastSet, clearedSince, xTok, xBuf, xNow, xRes, ctor, sCode, sRes,
           hClient, hReq, hPc, hN, hHist, hCancelled, hResp, hErr,
           hOut, hDelays, hOpen, gAuth, gCall, gPc, gJwt, gRes, aCfg, aRes >>

tmVars == << renewBuffer, cache, mutex, entries >>
histVars == << invMark, lastSet, clearedSince >>
sVars == << sCode, sRes >>
hVars == << hClient, hReq, hPc, hN, hHist, hCancelled, hResp, hErr, hOut,
           hDelays, hOpen >>
gVars == << gAuth, gCall, gPc, gJwt, gRes >>
aVars == << aCfg, aRes >>
\* everything outside the TokenManager
xRest == << xTok, xBuf, xNow, xRes, ctor, sVars, hVars, aVars, gVars >>
xVars == << xRest, mutexW >>

\* IsTokenExpired with the boundary instant counted as expired
IsTokenExpired_Inclusive(token, buffer, t) ==
    IF token = NilToken THEN TRUE ELSE t + buffer >= token.expiresAt

\* token_manager.go:155-161; Time.After is strict
IsTokenExpired(token, buffer, t) ==
    IF token = NilToken THEN TRUE ELSE t + buffer > token.expiresAt

\* NewTokenManager that keeps a zero buffer
NewTokenManager_NoDefault(buffer) == buffer

\* token_manager.go:29-39
NewTokenManager(buffer) ==
    IF buffer = 0 THEN DefaultRenewBuffer ELSE buffer

EmptyCache == [k \in {} |-> 0]

\* values of the variables of the other components while none of them is called
NoResponse == [status |-> 0, body |-> [json |-> FALSE, message |-> ""]]
NoError == [kind |-> "none", status |-> 0, attempts |-> 0]
NoOutcome == [failure |-> "pending", status |-> 0, message |-> "", result |-> "untouched"]
NoShouldRetryCall == sCode = 0 /\ sRes = << >>
NoDoRequestCall ==
    /\ hClient = [nil |-> FALSE, MaxRetries |-> 0, RetryDelay |-> 0,
                  BackoffMultiplier |-> 0]
    /\ hReq = [ExpectedStatus |-> 0, valid |-> TRUE, AuthToken |-> 0]
    /\ hPc = "none"
    /\ hN = 0
    /\ hHist = << >>
    /\ hCancelled = FALSE
    /\ hResp = NoResponse
    /\ hErr = NoError
    /\ hOut = NoOutcome
    /\ hDelays = << >>
    /\ hOpen = {}
NoResult == [token |-> FALSE, err |-> ""]
NoGetInstallationTokenCall ==
    /\ gAuth = [urlOk |-> TRUE]
    /\ gCall = 0
    /\ gPc = "idle"
    /\ gJwt = 0
    /\ gRes = NoResult
NoNewGitHubAppAuthCall == aCfg = << >> /\ aRes = << >>

RLockFree == mutex.writer = NoThread
LockFree == mutex.writer = NoThread /\ mutex.readers = {}

Init ==
    /\ now = 0
    /\ \E b \in {0, MaxBuf} : /\ renewBuffer = NewTokenManager(b)
                               /\ lastSet = NewTokenManager(b)
    /\ ctor = [arg |-> 0, built |-> TRUE]   \* the argument is followed in CtorSpec
    /\ cache = EmptyCache
    /\ mutex = [readers |-> {}, writer |-> NoThread]
    /\ mutexW = NoThread
    /\ entries = << >>
    /\ issued = 0
    /\ pc = [t \in Threads |-> "idle"]
    /\ cached = [t \in Threads |-> 0]
    /\ local = [t \in Threads |-> NilToken]
    /\ ret = [t \in Threads |-> NilToken]
    /\ err = [t \in Threads |-> FALSE]
    /\ stats = [t \in Threads |-> NoStats]
    /\ retBuf = [t \in Threads |-> 0]
    /\ path = [t \in Threads |-> "none"]
    /\ exch = [t \in Threads |-> 0]
    /\ mark = [t \in Threads |-> 0]
    /\ invMark = 0
    /\ clearedSince = FALSE
    /\ xTok = NilToken /\ xBuf = 0 /\ xNow = 0 /\ xRes = << >>
    /\ NoShouldRetryCall /\ NoDoRequestCall /\ NoNewGitHubAppAuthCall
    /\ NoGetInstallationTokenCall

thVars == << pc, cached, local, ret, err, stats, retBuf, path, exch, mark >>

Set(f, t, v) == [f EXCEPT ![t] = v]

Exists == InstallationID \in DOMAIN cache

\* GetToken calls that have not yet made the exchange they may still make
Pending ==
    {t \in Threads : pc[t] \in {"gt_read", "gt_touch", "gt_check", "rn_lock", "rn_check",
                                "rn_mark", "rn_exchange", "cn_exchange"}}

\* a cachedToken no pointer leads to any more is garbage
FreedEntry == [token |-> NilToken, createdAt |-> 0, lastUsed |-> 0,
               renewing |-> FALSE, renewMutex |-> NoThread]
Collect(ents, c, cd) ==
    [e \in DOMAIN ents |->
        IF (\E k \in DOMAIN c : c[k] = e) \/ (\E t \in Threads : cd[t] = e)
        THEN ents[e] ELSE FreedEntry]

\* RLock / RUnlock / Lock / Unlock of TokenManager.mutex
RLock(t) == [mutex EXCEPT !.readers = @ \cup {t}]
RUnlock(t) == [mutex EXCEPT !.readers = @ \ {t}]
Lock(t) == [mutex EXCEPT !.writer = t]
Unlock(t) == [mutex EXCEPT !.writer = NoThread]

\* the token a successful exchange yields (github_app_auth.go:140-146)
NewToken(life) == [id |-> issued + 1, expiresAt |-> now + life]

\* time.Duration.String() of a whole number of minutes below one hour
DurationString(d) ==
    IF d = 0 THEN << "0s" >>
    ELSE IF d < 0 THEN << "-", 0 - d, "m0s" >> ELSE << d, "m0s" >>

\* ---------------- GetToken (token_manager.go:42-58) ----------------

\* line 43: the call starts and takes the read lock
GetToken(t) ==
    /\ pc[t] = "idle"
    /\ issued + Cardinality(Pending) < MaxTokens
    /\ RLockFree
    /\ mutex' = RLock(t)
    /\ pc' = Set(pc, t, "gt_read")
    /\ mark' = Set(mark, t, invMark)
    /\ UNCHANGED << now, renewBuffer, cache, entries, issued, cached, local, ret, err,
                    stats, retBuf, path, exch >>
    /\ UNCHANGED histVars /\ UNCHANGED xVars

\* GetToken that keeps the read lock after the lookup
GetToken_Read_KeepLock(t) ==
    /\ pc[t] = "gt_read"
    /\ mutex' = mutex
    /\ IF Exists
       THEN /\ cached' = Set(cached, t, cache[InstallationID])
            /\ pc' = Set(pc, t, "gt_touch")
            /\ UNCHANGED << path, exch >>
       ELSE /\ pc' = Set(pc, t, "cn_exchange")
            /\ path' = Set(path, t, "create")
            /\ exch' = Set(exch, t, exch[t] + 1)
            /\ UNCHANGED cached
    /\ UNCHANGED << now, renewBuffer, cache, entries, issued, local, ret, err,
                    stats, retBuf, mark >>
    /\ UNCHANGED histVars /\ UNCHANGED xVars

\* lines 44-47 and 57: the lookup; with no entry createNewToken starts its exchange
GetToken_Read(t) ==
    /\ pc[t] = "gt_read"
    /\ mutex' = RUnlock(t)
    /\ IF Exists
       THEN /\ cached' = Set(cached, t, cache[InstallationID])
            /\ pc' = Set(pc, t, "gt_touch")
            /\ UNCHANGED << path, exch >>
       ELSE /\ pc' = Set(pc, t, "cn_exchange")
            /\ path' = Set(path, t, "create")
            /\ exch' = Set(exch, t, exch[t] + 1)
            /\ UNCHANGED cached
    /\ UNCHANGED << now, renewBuffer, cache, entries, issued, local, ret, err,
                    stats, retBuf, mark >>
    /\ UNCHANGED histVars /\ UNCHANGED xVars

\* GetToken that does not record the use
GetToken_Touch_Skip(t) ==
    /\ pc[t] = "gt_touch"
    /\ entries' = entries
    /\ pc' = Set(pc, t, "gt_check")
    /\ UNCHANGED << now, renewBuffer, cache, mutex, issued, cached, local, ret,
                    err, stats, retBuf, path, exch, mark >>
    /\ UNCHANGED histVars /\ UNCHANGED xVars

\* line 48
GetToken_Touch(t) ==
    /\ pc[t] = "gt_touch"
    /\ entries' = [entries EXCEPT ![cached[t]].lastUsed = now]
    /\ pc' = Set(pc, t, "gt_check")
    /\ UNCHANGED << now, renewBuffer, cache, mutex, issued, cached, local, ret,
                    err, stats, retBuf, path, exch, mark >>
    /\ UNCHANGED histVars /\ UNCHANGED xVars

\* GetToken that renews on every call, whatever the expiry check says
GetToken_Check_AlwaysRenew(t) ==
    /\ pc[t] = "gt_check"
    /\ pc' = Set(pc, t, "rn_lock")
    /\ path' = Set(path, t, "due")
    /\ UNCHANGED << now, renewBuffer, cache, mutex, entries, issued, cached, local, ret,
                    err, stats, retBuf, exch, mark >>
    /\ UNCHANGED histVars /\ UNCHANGED xVars

\* line 50: the expiry check, and line 54 when the token is due
GetToken_Check(t) ==
    /\ pc[t] = "gt_check"
    /\ IF ~IsTokenExpired(entries[cached[t]].token, renewBuffer, now)
       THEN /\ pc' = Set(pc, t, "gt_return")
            /\ local' = Set(local, t, entries[cached[t]].token)
            /\ path' = Set(path, t, "fast")
       ELSE /\ pc' = Set(pc, t, "rn_lock")
            /\ path' = Set(path, t, "due")
            /\ UNCHANGED local
    /\ UNCHANGED << now, renewBuffer, cache, mutex, entries, issued, cached, ret,
                    err, stats, retBuf, exch, mark >>
    /\ UNCHANGED histVars /\ UNCHANGED xVars

\* GetToken that returns a valid token only once the renewal lock is free
GetToken_Return_Locked(t) ==
    /\ pc[t] = "gt_return"
    /\ entries[cached[t]].renewMutex = NoThread
    /\ \E tok \in {local[t], entries[cached[t]].token} : ret' = Set(ret, t, tok)
    /\ pc' = Set(pc, t, "done")
    /\ UNCHANGED << now, renewBuffer, cache, mutex, entries, issued, cached, local,
                    err, stats, retBuf, path, exch, mark >>
    /\ UNCHANGED histVars /\ UNCHANGED xVars

\* line 51: cached.token is read again with no lock held; the build may also
\* reuse the value read by the check
GetToken_Return(t) ==
    /\ pc[t] = "gt_return"
    /\ \E tok \in {local[t], entries[cached[t]].token} : ret' = Set(ret, t, tok)
    /\ pc' = Set(pc, t, "done")
    /\ UNCHANGED << now, renewBuffer, cache, mutex, entries, issued, cached, local,
                    err, stats, retBuf, path, exch, mark >>
    /\ UNCHANGED histVars /\ UNCHANGED xVars

\* ---------------- renewToken (token_manager.go:61-82) ----------------

\* line 62
renewToken_Lock(t) ==
    /\ pc[t] = "rn_lock"
    /\ entries[cached[t]].renewMutex = NoThread
    /\ entries' = [entries EXCEPT ![cached[t]].renewMutex = t]
    /\ pc' = Set(pc, t, "rn_check")
    /\ UNCHANGED << now, renewBuffer, cache, mutex, issued, cached, local, ret,
                    err, stats, retBuf, path, exch, mark >>
    /\ UNCHANGED histVars /\ UNCHANGED xVars

\* renewToken without the second expiry check under the renewal lock
renewToken_Check_NoRecheck(t) ==
    /\ pc[t] = "rn_check"
    /\ pc' = Set(pc, t, "rn_mark")
    /\ UNCHANGED << now, renewBuffer, cache, mutex, entries, issued, cached, local, ret,
                    err, stats, retBuf, path, exch, mark >>
    /\ UNCHANGED histVars /\ UNCHANGED xVars

\* lines 65-67 (with the deferred unlock of line 63 on return)
renewToken_Check(t) ==
    /\ pc[t] = "rn_check"
    /\ IF ~IsTokenExpired(entries[cached[t]].token, renewBuffer, now)
       THEN /\ ret' = Set(ret, t, entries[cached[t]].token)
            /\ entries' = [entries EXCEPT ![cached[t]].renewMutex = NoThread]
            /\ pc' = Set(pc, t, "done")
            /\ path' = Set(path, t, "recheck")
       ELSE /\ pc' = Set(pc, t, "rn_mark")
            /\ UNCHANGED << ret, entries, path >>
    /\ UNCHANGED << now, renewBuffer, cache, mutex, issued, cached, local,
                    err, stats, retBuf, exch, mark >>
    /\ UNCHANGED histVars /\ UNCHANGED xVars

\* lines 69 and 71: renewing is set and the exchange starts
renewToken_Mark(t) ==
    /\ pc[t] = "rn_mark"
    /\ entries' = [entries EXCEPT ![cached[t]].renewing = TRUE]
    /\ exch' = Set(exch, t, exch[t] + 1)
    /\ pc' = Set(pc, t, "rn_exchange")
    /\ UNCHANGED << now, renewBuffer, cache, mutex, issued, cached, local, ret,
                    err, stats, retBuf, path, mark >>
    /\ UNCHANGED histVars /\ UNCHANGED xVars

\* line 71 returns a token
renewToken_ExchangeOk(t) ==
    /\ pc[t] = "rn_exchange"
    /\ \E life \in Lifetimes : local' = Set(local, t, NewToken(life))
    /\ issued' = issued + 1
    /\ pc' = Set(pc, t, "rn_set_token")
    /\ UNCHANGED << now, renewBuffer, cache, mutex, entries, cached, ret,
                    err, stats, retBuf, path, exch, mark >>
    /\ UNCHANGED histVars /\ UNCHANGED xVars

\* a failed renewal that falls back to the cached token
renewToken_ExchangeErr_ServeStale(t) ==
    /\ pc[t] = "rn_exchange"
    /\ entries' = [entries EXCEPT ![cached[t]].renewing = FALSE,
                                  ![cached[t]].renewMutex = NoThread]
    /\ ret' = Set(ret, t, entries[cached[t]].token)
    /\ path' = Set(path, t, "renewfail")
    /\ pc' = Set(pc, t, "done")
    /\ UNCHANGED << now, renewBuffer, cache, mutex, issued, cached, local, err,
                    stats, retBuf, exch, mark >>
    /\ UNCHANGED histVars /\ UNCHANGED xVars

\* a failed renewal that stores the nil token it got
renewToken_ExchangeErr_StoreNil(t) ==
    /\ pc[t] = "rn_exchange"
    /\ entries' = [entries EXCEPT ![cached[t]].token = NilToken,
                                  ![cached[t]].renewing = FALSE,
                                  ![cached[t]].renewMutex = NoThread]
    /\ ret' = Set(ret, t, NilToken)
    /\ err' = Set(err, t, TRUE)
    /\ path' = Set(path, t, "renewfail")
    /\ pc' = Set(pc, t, "done")
    /\ UNCHANGED << now, renewBuffer, cache, mutex, issued, cached, local,
                    stats, retBuf, exch, mark >>
    /\ UNCHANGED histVars /\ UNCHANGED xVars

\* a failed renewal that returns without clearing the renewing flag
renewToken_ExchangeErr_KeepFlag(t) ==
    /\ pc[t] = "rn_exchange"
    /\ entries' = [entries EXCEPT ![cached[t]].renewMutex = NoThread]
    /\ ret' = Set(ret, t, NilToken)
    /\ err' = Set(err, t, TRUE)
    /\ path' = Set(path, t, "renewfail")
    /\ pc' = Set(pc, t, "done")
    /\ UNCHANGED << now, renewBuffer, cache, mutex, issued, cached, local,
                    stats, retBuf, exch, mark >>
    /\ UNCHANGED histVars /\ UNCHANGED xVars

\* a failed renewal that returns with the renewal lock still held
renewToken_ExchangeErr_NoUnlock(t) ==
    /\ pc[t] = "rn_exchange"
    /\ entries' = [entries EXCEPT ![cached[t]].renewing = FALSE]
    /\ ret' = Set(ret, t, NilToken)
    /\ err' = Set(err, t, TRUE)
    /\ path' = Set(path, t, "renewfail")
    /\ pc' = Set(pc, t, "done")
    /\ UNCHANGED << now, renewBuffer, cache, mutex, issued, cached, local,
                    stats, retBuf, exch, mark >>
    /\ UNCHANGED histVars /\ UNCHANGED xVars

\* lines 72-75: the exchange fails
renewToken_ExchangeErr(t) ==
    /\ pc[t] = "rn_exchange"
    /\ entries' = [entries EXCEPT ![cached[t]].renewing = FALSE,
                                  ![cached[t]].renewMutex = NoThread]
    /\ ret' = Set(ret, t, NilToken)
    /\ err' = Set(err, t, TRUE)
    /\ path' = Set(path, t, "renewfail")
    /\ pc' = Set(pc, t, "done")
    /\ UNCHANGED << now, renewBuffer, cache, mutex, issued, cached, local,
                    stats, retBuf, exch, mark >>
    /\ UNCHANGED histVars /\ UNCHANGED xVars

\* line 77
renewToken_SetToken(t) ==
    /\ pc[t] = "rn_set_token"
    /\ entries' = [entries EXCEPT ![cached[t]].token = local[t]]
    /\ pc' = Set(pc, t, "rn_set_created")
    /\ UNCHANGED << now, renewBuffer, cache, mutex, issued, cached, local, ret,
                    err, stats, retBuf, path, exch, mark >>
    /\ UNCHANGED histVars /\ UNCHANGED xVars

\* line 78
renewToken_SetCreatedAt(t) ==
    /\ pc[t] = "rn_set_created"
    /\ entries' = [entries EXCEPT ![cached[t]].createdAt = now]
    /\ pc' = Set(pc, t, "rn_clear")
    /\ UNCHANGED << now, renewBuffer, cache, mutex, issued, cached, local, ret,
                    err, stats, retBuf, path, exch, mark >>
    /\ UNCHANGED histVars /\ UNCHANGED xVars

\* a renewal that exchanges again as long as the token it got is itself due
renewToken_Done_Loop(t) ==
    /\ pc[t] = "rn_clear"
    /\ IF IsTokenExpired(local[t], renewBuffer, now)
       THEN /\ pc' = Set(pc, t, "rn_mark")
            /\ UNCHANGED << entries, ret, path >>
       ELSE /\ entries' = [entries EXCEPT ![cached[t]].renewing = FALSE,
                                          ![cached[t]].renewMutex = NoThread]
            /\ ret' = Set(ret, t, local[t])
            /\ path' = Set(path, t, "renewed")
            /\ pc' = Set(pc, t, "done")
    /\ UNCHANGED << now, renewBuffer, cache, mutex, issued, cached, local,
                    err, stats, retBuf, exch, mark >>
    /\ UNCHANGED histVars /\ UNCHANGED xVars

\* lines 79-81 (with the deferred unlock of line 63)
renewToken_Done(t) ==
    /\ pc[t] = "rn_clear"
    /\ entries' = [entries EXCEPT ![cached[t]].renewing = FALSE,
                                  ![cached[t]].renewMutex = NoThread]
    /\ ret' = Set(ret, t, local[t])
    /\ path' = Set(path, t, "renewed")
    /\ pc' = Set(pc, t, "done")
    /\ UNCHANGED << now, renewBuffer, cache, mutex, issued, cached, local,
                    err, stats, retBuf, exch, mark >>
    /\ UNCHANGED histVars /\ UNCHANGED xVars

\* ---------------- createNewToken (token_manager.go:85-101) ----------------

\* line 86 returns a token
createNewToken_ExchangeOk(t) ==
    /\ pc[t] = "cn_exchange"
    /\ \E life \in Lifetimes : local' = Set(local, t, NewToken(life))
    /\ issued' = issued + 1
    /\ pc' = Set(pc, t, "cn_lock")
    /\ UNCHANGED << now, renewBuffer, cache, mutex, entries, cached, ret,
                    err, stats, retBuf, path, exch, mark >>
    /\ UNCHANGED histVars /\ UNCHANGED xVars

\* lines 87-89: the exchange fails
createNewToken_ExchangeErr(t) ==
    /\ pc[t] = "cn_exchange"
    /\ ret' = Set(ret, t, NilToken)
    /\ err' = Set(err, t, TRUE)
    /\ path' = Set(path, t, "createfail")
    /\ pc' = Set(pc, t, "done")
    /\ UNCHANGED << now, renewBuffer, cache, mutex, entries, issued, cached,
                    local, stats, retBuf, exch, mark >>
    /\ UNCHANGED histVars /\ UNCHANGED xVars

\* line 91
createNewToken_Lock(t) ==
    /\ pc[t] = "cn_lock"
    /\ LockFree
    /\ mutex' = Lock(t)
    /\ pc' = Set(pc, t, "cn_insert")
    /\ UNCHANGED << now, renewBuffer, cache, entries, issued, cached, local, ret,
                    err, stats, retBuf, path, exch, mark >>
    /\ UNCHANGED histVars /\ UNCHANGED xVars

\* lines 92-100
createNewToken_Insert(t) ==
    /\ pc[t] = "cn_insert"
    /\ cache' = [k \in DOMAIN cache \cup {InstallationID} |->
                    IF k = InstallationID THEN Len(entries) + 1 ELSE cache[k]]
    /\ entries' = Collect(Append(entries, [token |-> local[t], createdAt |-> now,
                                           lastUsed |-> now, renewing |-> FALSE,
                                           renewMutex |-> NoThread]),
                          cache', cached)
    /\ mutex' = Unlock(t)
    /\ ret' = Set(ret, t, local[t])
    /\ path' = Set(path, t, "created")
    /\ pc' = Set(pc, t, "done")
    /\ clearedSince' = FALSE
    /\ UNCHANGED << now, renewBuffer, issued, cached, local, err, stats, retBuf,
                    exch, mark, invMark, lastSet >>
    /\ UNCHANGED xVars

\* ---------------- InvalidateToken (token_manager.go:104-108) ----------------

\* line 105
InvalidateToken(t) ==
    /\ pc[t] = "idle"
    /\ LockFree
    /\ mutex' = Lock(t)
    /\ pc' = Set(pc, t, "inv_delete")
    /\ UNCHANGED << now, renewBuffer, cache, entries, issued, cached, local, ret,
                    err, stats, retBuf, path, exch, mark >>
    /\ UNCHANGED histVars /\ UNCHANGED xVars

\* lines 106-107
InvalidateToken_Delete(t) ==
    /\ pc[t] = "inv_delete"
    /\ cache' = [k \in DOMAIN cache \ {InstallationID} |-> cache[k]]
    /\ entries' = Collect(entries, cache', cached)
    /\ mutex' = Unlock(t)
    /\ pc' = Set(pc, t, "idle")
    /\ invMark' = issued
    /\ UNCHANGED << now, renewBuffer, issued, cached, local, ret,
                    err, stats, retBuf, path, exch, mark, lastSet, clearedSince >>
    /\ UNCHANGED xVars

\* ---------------- ClearCache (token_manager.go:111-115) ----------------

\* line 112
ClearCache(t) ==
    /\ pc[t] = "idle"
    /\ LockFree
    /\ mutex' = Lock(t)
    /\ pc' = Set(pc, t, "clr_reset")
    /\ UNCHANGED << now, renewBuffer, cache, entries, issued, cached, local, ret,
                    err, stats, retBuf, path, exch, mark >>
    /\ UNCHANGED histVars /\ UNCHANGED xVars

\* ClearCache that unlocks without replacing the map
ClearCache_Reset_Keep(t) ==
    /\ pc[t] = "clr_reset"
    /\ mutex' = Unlock(t)
    /\ pc' = Set(pc, t, "idle")
    /\ clearedSince' = TRUE
    /\ UNCHANGED << now, renewBuffer, cache, entries, issued, cached, local, ret,
                    err, stats, retBuf, path, exch, mark, lastSet, invMark >>
    /\ UNCHANGED xVars

\* lines 113-114
ClearCache_Reset(t) ==
    /\ pc[t] = "clr_reset"
    /\ cache' = EmptyCache
    /\ entries' = Collect(entries, cache', cached)
    /\ mutex' = Unlock(t)
    /\ pc' = Set(pc, t, "idle")
    /\ clearedSince' = TRUE
    /\ UNCHANGED << now, renewBuffer, issued, cached, local, ret,
                    err, stats, retBuf, path, exch, mark, lastSet, invMark >>
    /\ UNCHANGED xVars

\* ---------------- GetCacheStats (token_manager.go:118-142) ----------------

\* line 119
GetCacheStats(t) ==
    /\ pc[t] = "idle"
    /\ RLockFree
    /\ mutex' = RLock(t)
    /\ pc' = Set(pc, t, "st_read")
    /\ UNCHANGED << now, renewBuffer, cache, entries, issued, cached, local, ret,
                    err, stats, retBuf, path, exch, mark >>
    /\ UNCHANGED histVars /\ UNCHANGED xVars

\* lines 128-137: the detail of one entry
CacheDetail(c) ==
    [created_at |-> entries[c].createdAt,
     last_used  |-> entries[c].lastUsed,
     renewing   |-> entries[c].renewing,
     expires_at |-> entries[c].token.expiresAt,
     is_expired |-> IsTokenExpired(entries[c].token, 0, now)]

\* GetCacheStats that records a use of every entry it reports
GetCacheStats_Read_Touch(t) ==
    /\ pc[t] = "st_read"
    /\ stats' = Set(stats, t,
                    [total         |-> Cardinality(DOMAIN cache),
                     renew_buffer  |-> DurationString(renewBuffer),
                     details       |-> [k \in DOMAIN cache |-> CacheDetail(cache[k])],
                     afterClear    |-> clearedSince])
    /\ mutex' = RUnlock(t)
    /\ entries' = [e \in DOMAIN entries |->
                      IF \E k \in DOMAIN cache : cache[k] = e
                      THEN [entries[e] EXCEPT !.lastUsed = now] ELSE entries[e]]
    /\ pc' = Set(pc, t, "done")
    /\ path' = Set(path, t, "stats")
    /\ UNCHANGED << now, renewBuffer, cache, issued, cached, local, ret,
                    err, retBuf, exch, mark >>
    /\ UNCHANGED histVars /\ UNCHANGED xVars

\* lines 122-141 (with the deferred RUnlock of line 120)
GetCacheStats_Read(t) ==
    /\ pc[t] = "st_read"
    /\ stats' = Set(stats, t,
                    [total         |-> Cardinality(DOMAIN cache),
                     renew_buffer  |-> DurationString(renewBuffer),
                     details       |-> [k \in DOMAIN cache |-> CacheDetail(cache[k])],
                     afterClear    |-> clearedSince])
    /\ mutex' = RUnlock(t)
    /\ pc' = Set(pc, t, "done")
    /\ path' = Set(path, t, "stats")
    /\ UNCHANGED << now, renewBuffer, cache, entries, issued, cached, local, ret,
                    err, retBuf, exch, mark >>
    /\ UNCHANGED histVars /\ UNCHANGED xVars

\* ---------------- SetRenewBuffer / GetRenewBuffer (token_manager.go:145-152) ----------------

\* SetRenewBuffer that applies the constructor's default to a zero buffer
SetRenewBuffer_Default(t, buffer) ==
    /\ pc[t] = "idle"
    /\ renewBuffer' = NewTokenManager(buffer)
    /\ lastSet' = buffer
    /\ UNCHANGED << now, cache, mutex, entries, issued, pc, cached, local, ret,
                    err, stats, retBuf, path, exch, mark, invMark, clearedSince >>
    /\ UNCHANGED xVars

\* line 146: one store, no lock
SetRenewBuffer(t, buffer) ==
    /\ pc[t] = "idle"
    /\ renewBuffer' = buffer
    /\ lastSet' = buffer
    /\ UNCHANGED << now, cache, mutex, entries, issued, pc, cached, local, ret,
                    err, stats, retBuf, path, exch, mark, invMark, clearedSince >>
    /\ UNCHANGED xVars

\* line 151: one load, no lock
GetRenewBuffer(t) ==
    /\ pc[t] = "idle"
    /\ retBuf' = Set(retBuf, t, renewBuffer)
    /\ pc' = Set(pc, t, "done")
    /\ path' = Set(path, t, "getbuf")
    /\ UNCHANGED << now, renewBuffer, cache, mutex, entries, issued, cached, local,
                    ret, err, stats, exch, mark >>
    /\ UNCHANGED histVars /\ UNCHANGED xVars

\* ---------------- environment ----------------

\* the caller takes the result; the goroutine is free for its next call
Return(t) ==
    /\ pc[t] = "done"
    /\ pc' = Set(pc, t, "idle")
    /\ cached' = Set(cached, t, 0)
    /\ local' = Set(local, t, NilToken)
    /\ ret' = Set(ret, t, NilToken)
    /\ err' = Set(err, t, FALSE)
    /\ stats' = Set(stats, t, NoStats)
    /\ retBuf' = Set(retBuf, t, 0)
    /\ path' = Set(path, t, "none")
    /\ exch' = Set(exch, t, 0)
    /\ mark' = Set(mark, t, 0)
    /\ entries' = Collect(entries, cache, cached')
    /\ UNCHANGED << now, renewBuffer, cache, mutex, issued >>
    /\ UNCHANGED histVars /\ UNCHANGED xVars

\* time passes
Tick ==
    /\ now < MaxTime
    /\ now' = now + 1
    /\ UNCHANGED << renewBuffer, cache, mutex, entries, issued >>
    /\ UNCHANGED thVars /\ UNCHANGED histVars /\ UNCHANGED xVars

Next ==
    \/ \E t \in Threads : GetToken(t)
    \/ \E t \in Threads : GetToken_Read(t)
    \/ \E t \in Threads : GetToken_Touch(t)
    \/ \E t \in Threads : GetToken_Check(t)
    \/ \E t \in Threads : GetToken_Return(t)
    \/ \E t \in Threads : renewToken_Lock(t)
    \/ \E t \in Threads : renewToken_Check(t)
    \/ \E t \in Threads : renewToken_Mark(t)
    \/ \E t \in Threads : renewToken_ExchangeOk(t)
    \/ \E t \in Threads : renewToken_ExchangeErr(t)
    \/ \E t \in Threads : renewToken_SetToken(t)
    \/ \E t \in Threads : renewToken_SetCreatedAt(t)
    \/ \E t \in Threads : renewToken_Done(t)
    \/ \E t \in Threads : createNewToken_ExchangeOk(t)
    \/ \E t \in Threads : createNewToken_ExchangeErr(t)
    \/ \E t \in Threads : createNewToken_Lock(t)
    \/ \E t \in Threads : createNewToken_Insert(t)
    \/ \E t \in Threads : InvalidateToken(t)
    \/ \E t \in Threads : InvalidateToken_Delete(t)
    \/ \E t \in Threads : ClearCache(t)
    \/ \E t \in Threads : ClearCache_Reset(t)
    \/ \E t \in Threads : GetCacheStats(t)
    \/ \E t \in Threads : GetCacheStats_Read(t)
    \/ \E t \in Threads : \E d \in Buffers : SetRenewBuffer(t, d)
    \/ \E t \in Threads : GetRenewBuffer(t)
    \/ \E t \in Threads : Return(t)
    \/ Tick

Spec == Init /\ [][Next]_vars

\* ---------------- calls that wait for their locks ----------------

\* the four operations that take the cache lock on entry
Waiting == {"gt_call", "inv_call", "clr_call", "st_call"}
\* the places where a goroutine stands in tm.mutex.Lock()
LockWaits == {"inv_call", "clr_call", "cn_lock"}

\* a writer has announced itself and waits for the readers to leave:
\* sync.RWMutex lets no new reader in
Announced == mutexW # NoThread /\ pc[mutexW] \in LockWaits

\* a goroutine calls GetToken, InvalidateToken, ClearCache or GetCacheStats
\* and stands before the lock of its first line
Call(t, op) ==
    /\ pc[t] = "idle"
    /\ mutexW # t
    /\ op = "gt_call" => issued < MaxLiveTokens
    /\ pc' = Set(pc, t, op)
    /\ UNCHANGED mutex
    /\ UNCHANGED << now, renewBuffer, cache, entries, issued, cached, local, ret,
                    err, stats, retBuf, path, exch, mark >>
    /\ UNCHANGED histVars /\ UNCHANGED xVars

\* line 43
GetToken_RLock(t) ==
    /\ pc[t] = "gt_call"
    /\ RLockFree /\ ~Announced
    /\ mutex' = RLock(t)
    /\ pc' = Set(pc, t, "gt_read")
    /\ mark' = Set(mark, t, invMark)
    /\ UNCHANGED << now, renewBuffer, cache, entries, issued, cached, local, ret, err,
                    stats, retBuf, path, exch >>
    /\ UNCHANGED histVars /\ UNCHANGED xVars

\* lines 91, 105 and 112, first half of Lock: the writer gets in line before
\* every other writer and announces itself to the readers
Lock_Announce(t) ==
    /\ pc[t] \in LockWaits
    /\ mutexW = NoThread
    /\ mutexW' = t
    /\ UNCHANGED << now, renewBuffer, cache, mutex, entries, issued >>
    /\ UNCHANGED thVars /\ UNCHANGED histVars /\ UNCHANGED xRest

\* line 91, second half of Lock: the readers have left
createNewToken_Locked(t) ==
    /\ mutexW = t
    /\ createNewToken_Lock(t)

\* line 105, second half of Lock
InvalidateToken_Lock(t) ==
    /\ pc[t] = "inv_call"
    /\ mutexW = t
    /\ LockFree
    /\ mutex' = Lock(t)
    /\ pc' = Set(pc, t, "inv_delete")
    /\ UNCHANGED << now, renewBuffer, cache, entries, issued, cached, local, ret,
                    err, stats, retBuf, path, exch, mark >>
    /\ UNCHANGED histVars /\ UNCHANGED xVars

\* line 112, second half of Lock
ClearCache_Lock(t) ==
    /\ pc[t] = "clr_call"
    /\ mutexW = t
    /\ LockFree
    /\ mutex' = Lock(t)
    /\ pc' = Set(pc, t, "clr_reset")
    /\ UNCHANGED << now, renewBuffer, cache, entries, issued, cached, local, ret,
                    err, stats, retBuf, path, exch, mark >>
    /\ UNCHANGED histVars /\ UNCHANGED xVars

\* lines 98, 107 and 114, last step of Unlock, after the readers were let in
\* again: the next writer may get in line
Unlock_Release(t) ==
    /\ mutexW = t
    /\ mutex.writer # t
    /\ pc[t] \notin LockWaits
    /\ mutexW' = NoThread
    /\ UNCHANGED << now, renewBuffer, cache, mutex, entries, issued >>
    /\ UNCHANGED thVars /\ UNCHANGED histVars /\ UNCHANGED xRest

\* line 119
GetCacheStats_RLock(t) ==
    /\ pc[t] = "st_call"
    /\ RLockFree /\ ~Announced
    /\ mutex' = RLock(t)
    /\ pc' = Set(pc, t, "st_read")
    /\ UNCHANGED << now, renewBuffer, cache, entries, issued, cached, local, ret,
                    err, stats, retBuf, path, exch, mark >>
    /\ UNCHANGED histVars /\ UNCHANGED xVars

\* the steps of goroutine t that wait for nothing
LiveStep(t) ==
    \/ GetToken_Read(t) \/ GetToken_Touch(t) \/ GetToken_Check(t) \/ GetToken_Return(t)
    \/ renewToken_Check(t) \/ renewToken_Mark(t)
    \/ renewToken_SetToken(t) \/ renewToken_SetCreatedAt(t) \/ renewToken_Done(t)
    \/ createNewToken_Insert(t)
    \/ InvalidateToken_Delete(t) \/ ClearCache_Reset(t) \/ GetCacheStats_Read(t)
    \/ Unlock_Release(t)

\* the exchange of goroutine t returns, with a token or with an error
ExchangeReturns(t) ==
    \/ renewToken_ExchangeOk(t) \/ renewToken_ExchangeErr(t)
    \/ createNewToken_ExchangeOk(t) \/ createNewToken_ExchangeErr(t)

\* goroutine t gets a lock it waits for
LiveAcquire(t) ==
    \/ GetToken_RLock(t) \/ GetCacheStats_RLock(t)
    \/ Lock_Announce(t)
    \/ InvalidateToken_Lock(t) \/ ClearCache_Lock(t) \/ createNewToken_Locked(t)
    \/ renewToken_Lock(t)

LiveNext ==
    \/ \E t \in Threads : \E op \in Waiting : Call(t, op)
    \/ \E t \in Threads : GetToken_RLock(t)
    \/ \E t \in Threads : GetCacheStats_RLock(t)
    \/ \E t \in Threads : Lock_Announce(t)
    \/ \E t \in Threads : InvalidateToken_Lock(t)
    \/ \E t \in Threads : ClearCache_Lock(t)
    \/ \E t \in Threads : createNewToken_Locked(t)
    \/ \E t \in Threads : renewToken_Lock(t)
    \/ \E t \in Threads : LiveStep(t)
    \/ \E t \in Threads : ExchangeReturns(t)
    \/ \E t \in Threads : Return(t)
    \/ Tick

\* the scheduler runs every goroutine that can take a step; sync.Mutex and
\* sync.RWMutex hand a lock that is free again and again to each waiter in
\* the end (sync.Mutex starvation mode; the readers a writer held back are
\* let in when it unlocks); every exchange returns
LiveFairness ==
    \A t \in Threads :
        /\ WF_vars(LiveStep(t))
        /\ WF_vars(ExchangeReturns(t))
        /\ SF_vars(LiveAcquire(t))

\* a manager built with a buffer that lets a token be valid first and due later
LiveInit == Init /\ renewBuffer = NewTokenManager(MaxBuf)

LiveSpec == LiveInit /\ [][LiveNext]_vars /\ LiveFairness

\* ---------------- IsTokenExpired on chosen inputs ----------------

ExpiryInit ==
    /\ now = 0
    /\ renewBuffer = DefaultRenewBuffer /\ lastSet = DefaultRenewBuffer
    /\ cache = EmptyCache
    /\ mutex = [readers |-> {}, writer |-> NoThread]
    /\ mutexW = NoThread
    /\ entries = << >>
    /\ issued = 0
    /\ pc = [t \in Threads |-> "idle"]
    /\ cached = [t \in Threads |-> 0]
    /\ local = [t \in Threads |-> NilToken]
    /\ ret = [t \in Threads |-> NilToken]
    /\ err = [t \in Threads |-> FALSE]
    /\ stats = [t \in Threads |-> NoStats]
    /\ retBuf = [t \in Threads |-> 0]
    /\ path = [t \in Threads |-> "none"]
    /\ exch = [t \in Threads |-> 0]
    /\ mark = [t \in Threads |-> 0]
    /\ invMark = 0
    /\ clearedSince = FALSE
    /\ xTok \in {NilToken} \cup {[id |-> 1, expiresAt |-> e] : e \in 0..(MaxTime + MaxLife)}
    /\ xBuf \in Buffers
    /\ xNow \in 0..(MaxTime + MaxLife)
    /\ xRes = << >>
    /\ ctor = [arg |-> 0, built |-> TRUE]
    /\ NoShouldRetryCall /\ NoDoRequestCall /\ NoNewGitHubAppAuthCall
    /\ NoGetInstallationTokenCall

\* tm.IsTokenExpired(xTok, xBuf) called at time xNow
CallIsTokenExpired ==
    /\ xRes = << >>
    /\ xRes' = << IsTokenExpired(xTok, xBuf, xNow) >>
    /\ UNCHANGED << now, renewBuffer, cache, mutex, mutexW, entries, issued, xTok, xBuf, xNow >>
    /\ UNCHANGED thVars /\ UNCHANGED histVars
    /\ UNCHANGED << ctor, sVars, hVars, aVars, gVars >>

ExpiryNext == CallIsTokenExpired

ExpirySpec == ExpiryInit /\ [][ExpiryNext]_vars

\* ---------------- NewTokenManager on chosen arguments ----------------

CtorArgs == (0 - MaxCtorBuf)..MaxCtorBuf

\* no TokenManager yet: the fields hold their zero values
CtorInit ==
    /\ now = 0
    /\ renewBuffer = 0 /\ lastSet = 0
    /\ cache = EmptyCache
    /\ mutex = [readers |-> {}, writer |-> NoThread]
    /\ mutexW = NoThread
    /\ entries = << >>
    /\ issued = 0
    /\ pc = [t \in Threads |-> "idle"]
    /\ cached = [t \in Threads |-> 0]
    /\ local = [t \in Threads |-> NilToken]
    /\ ret = [t \in Threads |-> NilToken]
    /\ err = [t \in Threads |-> FALSE]
    /\ stats = [t \in Threads |-> NoStats]
    /\ retBuf = [t \in Threads |-> 0]
    /\ path = [t \in Threads |-> "none"]
    /\ exch = [t \in Threads |-> 0]
    /\ mark = [t \in Threads |-> 0]
    /\ invMark = 0
    /\ clearedSince = FALSE
    /\ xTok = NilToken /\ xBuf = 0 /\ xNow = 0 /\ xRes = << >>
    /\ \E b \in CtorArgs : ctor = [arg |-> b, built |-> FALSE]
    /\ NoShouldRetryCall /\ NoDoRequestCall /\ NoNewGitHubAppAuthCall
    /\ NoGetInstallationTokenCall

\* NewTokenManager(auth, ctor.arg), token_manager.go:29-39
Construct ==
    /\ ~ctor.built
    /\ renewBuffer' = NewTokenManager(ctor.arg)
    /\ lastSet' = NewTokenManager(ctor.arg)
    /\ cache' = EmptyCache
    /\ mutex' = [readers |-> {}, writer |-> NoThread]
    /\ ctor' = [ctor EXCEPT !.built = TRUE]
    /\ UNCHANGED << now, mutexW, entries, issued, invMark, clearedSince >>
    /\ UNCHANGED thVars
    /\ UNCHANGED << xTok, xBuf, xNow, xRes, sVars, hVars, aVars, gVars >>

\* the fresh manager is only read
CtorNext ==
    \/ Construct
    \/ \E t \in Threads : ctor.built /\ GetRenewBuffer(t)
    \/ \E t \in Threads : ctor.built /\ GetCacheStats(t)
    \/ \E t \in Threads : ctor.built /\ GetCacheStats_Read(t)
    \/ \E t \in Threads : ctor.built /\ Return(t)

CtorSpec == CtorInit /\ [][CtorNext]_vars

\* ---------------- the HTTP executor (http_client.go) ----------------

\* the token manager is not used while the executor or the credential
\* constructor is exercised
TokenManagerAtRest ==
    /\ now = 0
    /\ renewBuffer = DefaultRenewBuffer /\ lastSet = DefaultRenewBuffer
    /\ cache = EmptyCache
    /\ mutex = [readers |-> {}, writer |-> NoThread]
    /\ mutexW = NoThread
    /\ entries = << >>
    /\ issued = 0
    /\ pc = [t \in Threads |-> "idle"]
    /\ cached = [t \in Threads |-> 0]
    /\ local = [t \in Threads |-> NilToken]
    /\ ret = [t \in Threads |-> NilToken]
    /\ err = [t \in Threads |-> FALSE]
    /\ stats = [t \in Threads |-> NoStats]
    /\ retBuf = [t \in Threads |-> 0]
    /\ path = [t \in Threads |-> "none"]
    /\ exch = [t \in Threads |-> 0]
    /\ mark = [t \in Threads |-> 0]
    /\ invMark = 0
    /\ clearedSince = FALSE
    /\ xTok = NilToken /\ xBuf = 0 /\ xNow = 0 /\ xRes = << >>
    /\ ctor = [arg |-> 0, built |-> TRUE]

tmOnly == << now, renewBuffer, cache, mutex, mutexW, entries, issued, thVars, histVars,
            xTok, xBuf, xNow, xRes, ctor >>
\* the token manager and the exchange that calls the executor
tmAll == << tmOnly, gVars >>

\* shouldRetry without the request-timeout status
shouldRetry_No408(statusCode) ==
    statusCode >= 500 \/ statusCode = 429

\* http_client.go:149-151
shouldRetry(statusCode) ==
    statusCode >= 500 \/ statusCode = 429 \/ statusCode = 408

StatusCodes == 100..MaxStatus

RetryInit ==
    /\ TokenManagerAtRest
    /\ sCode \in StatusCodes
    /\ sRes = << >>
    /\ NoDoRequestCall /\ NoNewGitHubAppAuthCall /\ NoGetInstallationTokenCall

\* shouldRetry(sCode)
CallShouldRetry ==
    /\ sRes = << >>
    /\ sRes' = << shouldRetry(sCode) >>
    /\ UNCHANGED << tmAll, sCode, hVars, aVars >>

RetryNext == CallShouldRetry

RetrySpec == RetryInit /\ [][RetryNext]_vars

\* lines 31-39; only MaxRetries reaches retry.Do's attempt count
DefaultHTTPClientConfig ==
    [nil |-> FALSE, MaxRetries |-> DefaultMaxRetries, RetryDelay |-> DefaultRetryDelay,
     BackoffMultiplier |-> DefaultBackoffMultiplier]
NilConfig == [nil |-> TRUE, MaxRetries |-> 0, RetryDelay |-> 0, BackoffMultiplier |-> 0]

\* lines 42-53: the configuration the client keeps
NewHTTPClient(config) ==
    IF config.nil THEN DefaultHTTPClientConfig ELSE config

\* delays in seconds, multipliers in whole numbers
Configs ==
    {NilConfig}
    \cup [nil : {FALSE}, MaxRetries : 0..MaxCfgRetries, RetryDelay : 1..MaxRetryDelay,
          BackoffMultiplier : 1..MaxMultiplier]

\* what the server may answer
Statuses == {200, 201, 400, 404, 408, 429, 500, 503}
Messages == {"", "Not Found"}
Bodies == {[json |-> FALSE, message |-> ""]}
          \cup {[json |-> TRUE, message |-> m] : m \in Messages}
ExpectedStatuses == {0, 200, 201}

\* the attempts of an endless retry the model follows
AttemptCap == MaxCfgRetries + 1

\* one DoRequest call on a client built from some configuration
HttpInit ==
    /\ TokenManagerAtRest
    /\ NoShouldRetryCall /\ NoNewGitHubAppAuthCall /\ NoGetInstallationTokenCall
    /\ \E c \in Configs : hClient = NewHTTPClient(c)
    /\ \E e \in ExpectedStatuses, v \in BOOLEAN :
          hReq = [ExpectedStatus |-> e, valid |-> v, AuthToken |-> 0]
    /\ hPc = "attempt"
    /\ hN = 0
    /\ hHist = << >>
    /\ hCancelled = FALSE
    /\ hResp = NoResponse
    /\ hErr = NoError
    /\ hOut = NoOutcome
    /\ hDelays = << >>
    /\ hOpen = {}

\* line 133 taken for every status outside 2xx only
StatusMismatch_Any2xx(expected, status) ==
    expected # 0 /\ status \notin 200..299

\* line 133 taken for server errors only
StatusMismatch_ServerOnly(expected, status) ==
    expected # 0 /\ status >= 500

\* line 133
StatusMismatch(expected, status) ==
    expected # 0 /\ status # expected

\* a RetryIf that lets every error be retried
RetryIf_Always(kind) == TRUE

\* lines 112-115: only a *RetryableError is retried
RetryIf(kind) == kind = "retryable"

\* the error of the first attempt instead of the last
LastError_First(log) == log[1]

\* line 111, retry.LastErrorOnly(true): retry.Do returns the last error
LastError(log) == log[Len(log)]

\* a retry loop that stops one attempt short of the count
GiveUp_Early(attempts, n) == attempts # 0 /\ n >= attempts - 2

\* line 108, retry.Attempts: retry.Do stops after the attempt numbered
\* attempts - 1; a count of zero means retrying until success
GiveUp(attempts, n) == attempts # 0 /\ n >= attempts - 1

\* a Close that leaves the body open
CloseBody_Leak(open, i) == open

\* lines 101 and 131: Body.Close()
CloseBody(open, i) == open \ {i}

\* lines 109-110, retry.Delay with retry.BackOffDelay: the delay doubles
\* with every attempt counted; BackoffMultiplier is not passed to retry.Do
BackOffDelay(config, n) == config.RetryDelay * 2 ^ n

Attempt(kind, status) ==
    [kind |-> kind, status |-> status, ctxDone |-> hCancelled]
Current == hHist[Len(hHist)]
Finish(kind, status) ==
    [hHist EXCEPT ![Len(hHist)] = [@ EXCEPT !.kind = kind, !.status = status]]

\* retry.Do after the attempt whose error closed the log: retry, or break
\* and return; lines 118-120 wrap what it returns
Failed(log, open) ==
    /\ hHist' = log
    /\ hOpen' = open
    /\ IF RetryIf(log[Len(log)].kind) /\ ~GiveUp(hClient.MaxRetries, hN)
       THEN /\ hPc' = "backoff"
            /\ hErr' = hErr
       ELSE /\ hPc' = "returned"
            /\ hErr' = [kind     |-> LastError(log).kind,
                        status   |-> LastError(log).status,
                        attempts |-> hClient.MaxRetries]
    /\ UNCHANGED << tmAll, sVars, aVars, hClient, hReq, hN, hCancelled, hResp, hOut,
                    hDelays >>

\* lines 80-83: http.NewRequestWithContext rejects the method or the URL
Attempt_Create ==
    /\ hPc = "attempt"
    /\ Len(hHist) < AttemptCap
    /\ ~hReq.valid
    /\ Failed(Append(hHist, Attempt("create", 0)), hOpen)

\* lines 80-95: the request is built and handed to c.client.Do
Attempt_Send ==
    /\ hPc = "attempt"
    /\ Len(hHist) < AttemptCap
    /\ hReq.valid
    /\ hHist' = Append(hHist, Attempt("inflight", 0))
    /\ hPc' = "inflight"
    /\ UNCHANGED << tmAll, sVars, aVars, hClient, hReq, hN, hCancelled, hResp, hErr, hOut,
                    hDelays, hOpen >>

\* lines 95-98: c.client.Do returns an error: the connection failed or timed
\* out, or ctx is done; a request sent on a done ctx can only end this way
Attempt_TransportError ==
    /\ hPc = "inflight"
    /\ \E k \in {"connect", "canceled"} :
          /\ k = "canceled" => hCancelled
          /\ k = "connect" => ~Current.ctxDone
          /\ Failed(Finish(k, 0), hOpen)

\* lines 95-106: the server answers, with a response whose body is open; a
\* retryable response is closed (line 101) before the error is returned
Attempt_Response ==
    /\ hPc = "inflight"
    /\ ~Current.ctxDone
    /\ \E s \in Statuses, b \in Bodies :
          IF shouldRetry(s)
          THEN Failed(Finish("retryable", s),
                      CloseBody(hOpen \cup {Len(hHist)}, Len(hHist)))
          ELSE /\ hHist' = Finish("response", s)
               /\ hResp' = [status |-> s, body |-> b]
               /\ hOpen' = hOpen \cup {Len(hHist)}
               /\ hPc' = "returned"
               /\ UNCHANGED << tmAll, sVars, aVars, hClient, hReq, hN, hCancelled,
                               hErr, hOut, hDelays >>

\* retry.Do sleeps, then counts the attempt; it was given no context, so a
\* done ctx does not end the sleep
Backoff ==
    /\ hPc = "backoff"
    /\ hDelays' = Append(hDelays, BackOffDelay(hClient, hN))
    /\ hN' = hN + 1
    /\ hPc' = "attempt"
    /\ UNCHANGED << tmAll, sVars, aVars, hClient, hReq, hHist, hCancelled, hResp,
                    hErr, hOut, hOpen >>

\* the caller cancels ctx
Cancel ==
    /\ hPc \in {"attempt", "inflight", "backoff"}
    /\ ~hCancelled
    /\ hCancelled' = TRUE
    /\ UNCHANGED << tmAll, sVars, aVars, hClient, hReq, hPc, hN, hHist, hResp, hErr, hOut,
                    hDelays, hOpen >>

\* lines 127-146, with the deferred Close of line 131
DoRequest_Return ==
    /\ hPc = "returned"
    /\ hPc' = "done"
    /\ IF hErr # NoError
       THEN hOut' = [failure |-> "request", status |-> hErr.status, message |-> "",
                     result |-> "untouched"]
       ELSE IF StatusMismatch(hReq.ExpectedStatus, hResp.status)
       THEN IF hResp.body.json
            THEN hOut' = [failure |-> "api", status |-> hResp.status,
                          message |-> hResp.body.message, result |-> "untouched"]
            ELSE hOut' = [failure |-> "api_undecoded", status |-> hResp.status,
                          message |-> "", result |-> "untouched"]
       ELSE IF hResp.body.json
            THEN hOut' = [failure |-> "none", status |-> 0, message |-> "",
                          result |-> "populated"]
            ELSE \E r \in {"untouched", "partial"} :
                     hOut' = [failure |-> "decode", status |-> 0, message |-> "",
                              result |-> r]
    /\ hOpen' = IF hErr = NoError THEN CloseBody(hOpen, Len(hHist)) ELSE hOpen
    /\ UNCHANGED << tmAll, sVars, aVars, hClient, hReq, hN, hHist, hCancelled, hResp, hErr,
                    hDelays >>

HttpNext ==
    \/ Attempt_Create
    \/ Attempt_Send
    \/ Attempt_TransportError
    \/ Attempt_Response
    \/ Backoff
    \/ Cancel
    \/ DoRequest_Return

HttpSpec == HttpInit /\ [][HttpNext]_vars

\* ---- what the attempts of the call were ----
Attempts == Len(hHist)
DoRequestReturned == hPc \in {"returned", "done"}
RetryableAt(i) == hHist[i].kind = "retryable"
AllRetryable == \A i \in 1..Len(hHist) : RetryableAt(i)
\* the server answered retryable statuses and then a status that is not
RetryablesThenFinal ==
    /\ Len(hHist) >= 1
    /\ hHist[Len(hHist)].kind = "response"
    /\ \A i \in 1..(Len(hHist) - 1) : RetryableAt(i)

\* ---------------- NewGitHubAppAuth (github_app_auth.go) ----------------

\* an ID is a string, here a sequence of characters
IdChars == {"-", "+", "0", "1", "a"}
RECURSIVE IdStrings(_)
IdStrings(n) ==
    IF n = 0 THEN {<< >>}
    ELSE IdStrings(n - 1) \cup {Append(w, c) : w \in IdStrings(n - 1), c \in IdChars}

DigitValue(c) == IF c = "1" THEN 1 ELSE 0
RECURSIVE DecimalValue(_)
DecimalValue(d) ==
    IF d = << >> THEN 0
    ELSE DecimalValue(SubSeq(d, 1, Len(d) - 1)) * 10 + DigitValue(d[Len(d)])

\* strconv.Atoi (lines 43, 48): an optional sign, then one or more digits
Atoi(str) ==
    LET signed == str # << >> /\ str[1] \in {"-", "+"}
        digits == IF signed THEN Tail(str) ELSE str
    IN  IF digits = << >> \/ (\E i \in 1..Len(digits) : digits[i] \notin {"0", "1"})
        THEN [ok |-> FALSE, val |-> 0]
        ELSE [ok |-> TRUE,
              val |-> IF str[1] = "-" THEN 0 - DecimalValue(digits)
                      ELSE DecimalValue(digits)]

\* key material: the type of the first PEM block and what its bytes hold
EmptyKey == [block |-> "", der |-> ""]
Keys ==
    {EmptyKey, [block |-> "none", der |-> ""]}
    \cup {[block |-> b, der |-> d] :
            b \in {"RSA PRIVATE KEY", "PRIVATE KEY", "EC PRIVATE KEY"},
            d \in {"pkcs1 rsa", "pkcs8 rsa", "pkcs8 ec", "garbage"}}

\* lines 72-103: the error, "" when the key parses
parsePrivateKey(key) ==
    IF key.block \in {"", "none"} THEN "failed to decode PEM block"
    ELSE IF key.block = "RSA PRIVATE KEY"
        THEN IF key.der = "pkcs1 rsa" THEN "" ELSE "failed to parse RSA private key"
    ELSE IF key.block = "PRIVATE KEY"
        THEN IF key.der = "pkcs8 rsa" THEN ""
             ELSE IF key.der = "pkcs8 ec" THEN "key is not an RSA private key"
             ELSE "failed to parse PKCS8 private key"
    ELSE "unsupported private key type"

NilAuth == [config |-> << >>, baseURL |-> ""]
NilGitHubAppConfig ==
    [nil |-> TRUE, AppID |-> << >>, PrivateKey |-> EmptyKey,
     InstallationID |-> << >>, BaseURL |-> ""]
GitHubAppConfigs ==
    {NilGitHubAppConfig}
    \cup [nil : {FALSE}, AppID : IdStrings(MaxIdLen), PrivateKey : Keys,
          InstallationID : IdStrings(MaxIdLen),
          BaseURL : {"", "https://ghe.example/api/v3"}]

\* lines 26-69: the instance and the error, "" for nil
NewGitHubAppAuth(config) ==
    IF config.nil THEN [auth |-> NilAuth, err |-> "config cannot be nil"]
    ELSE IF config.AppID = << >> THEN [auth |-> NilAuth, err |-> "app_id is required"]
    ELSE IF config.PrivateKey = EmptyKey
        THEN [auth |-> NilAuth, err |-> "private_key is required"]
    ELSE IF config.InstallationID = << >>
        THEN [auth |-> NilAuth, err |-> "installation_id is required"]
    ELSE IF ~Atoi(config.AppID).ok THEN [auth |-> NilAuth, err |-> "invalid app_id"]
    ELSE IF ~Atoi(config.InstallationID).ok
        THEN [auth |-> NilAuth, err |-> "invalid installation_id"]
    ELSE IF parsePrivateKey(config.PrivateKey) # ""
        THEN [auth |-> NilAuth, err |-> "failed to parse private key"]
    ELSE [auth |-> [config  |-> config,
                    baseURL |-> IF config.BaseURL = "" THEN "https://api.github.com"
                                ELSE config.BaseURL],
          err |-> ""]

AuthInit ==
    /\ TokenManagerAtRest
    /\ NoShouldRetryCall /\ NoDoRequestCall /\ NoGetInstallationTokenCall
    /\ aCfg \in GitHubAppConfigs
    /\ aRes = << >>

\* NewGitHubAppAuth(aCfg)
CallNewGitHubAppAuth ==
    /\ aRes = << >>
    /\ aRes' = << NewGitHubAppAuth(aCfg) >>
    /\ UNCHANGED << tmAll, sVars, hVars, aCfg >>

AuthNext == CallNewGitHubAppAuth

AuthSpec == AuthInit /\ [][AuthNext]_vars

\* the string is the decimal notation of a positive integer
PositiveInteger(str) == Atoi(str).ok /\ Atoi(str).val > 0

\* ---------------- GetInstallationToken (github_app_auth.go:120-147) ----------------

ExchangeInit ==
    /\ TokenManagerAtRest
    /\ NoShouldRetryCall /\ NoDoRequestCall /\ NoNewGitHubAppAuthCall
    /\ \E b \in BOOLEAN : gAuth = [urlOk |-> b]
    /\ gCall = 0
    /\ gPc = "idle"
    /\ gJwt = 0
    /\ gRes = NoResult

\* a caller enters GetInstallationToken; nothing of an earlier call is left
\* but the assertion it signed
GetInstallationToken ==
    /\ gPc \in {"idle", "returned"}
    /\ gCall < MaxCalls
    /\ gCall' = gCall + 1
    /\ gPc' = "sign"
    /\ gRes' = NoResult
    /\ hPc' = "none"
    /\ hN' = 0
    /\ hHist' = << >>
    /\ hCancelled' = FALSE
    /\ hResp' = NoResponse
    /\ hErr' = NoError
    /\ hOut' = NoOutcome
    /\ hDelays' = << >>
    /\ hOpen' = {}
    /\ UNCHANGED << tmOnly, sVars, aVars, gAuth, gJwt, hClient, hReq >>

\* lines 121-124: GenerateJWT fails to sign
GenerateJWT_Err ==
    /\ gPc = "sign"
    /\ gRes' = [token |-> FALSE, err |-> "failed to generate JWT"]
    /\ gPc' = "returned"
    /\ UNCHANGED << tmOnly, sVars, aVars, hVars, gAuth, gCall, gJwt >>

\* an exchange that signs once and sends that assertion again later
GetInstallationToken_Request_Reuse ==
    /\ gPc = "sign"
    /\ gJwt' = IF gJwt # 0 THEN gJwt ELSE gCall
    /\ hClient' = NewHTTPClient(NilConfig)
    /\ hReq' = [ExpectedStatus |-> StatusCreated, valid |-> gAuth.urlOk,
                AuthToken |-> gJwt']
    /\ hPc' = "attempt"
    /\ gPc' = "request"
    /\ UNCHANGED << tmOnly, sVars, aVars, gAuth, gCall, gRes, hN, hHist, hCancelled,
                    hResp, hErr, hOut, hDelays, hOpen >>

\* lines 121 and 126-134: GenerateJWT signs an assertion, which becomes the
\* bearer token of a POST expecting 201 on the client made by NewHTTPClient(nil)
GetInstallationToken_Request ==
    /\ gPc = "sign"
    /\ gJwt' = gCall
    /\ hClient' = NewHTTPClient(NilConfig)
    /\ hReq' = [ExpectedStatus |-> StatusCreated, valid |-> gAuth.urlOk,
                AuthToken |-> gJwt']
    /\ hPc' = "attempt"
    /\ gPc' = "request"
    /\ UNCHANGED << tmOnly, sVars, aVars, gAuth, gCall, gRes, hN, hHist, hCancelled,
                    hResp, hErr, hOut, hDelays, hOpen >>

\* lines 136-147
GetInstallationToken_Return ==
    /\ gPc = "request"
    /\ hPc = "done"
    /\ gRes' = IF hOut.failure = "none" THEN [token |-> TRUE, err |-> ""]
               ELSE [token |-> FALSE, err |-> "failed to get installation token"]
    /\ gPc' = "returned"
    /\ UNCHANGED << tmOnly, sVars, aVars, hVars, gAuth, gCall, gJwt >>

\* the context is context.Background(): nothing cancels it
ExchangeNext ==
    \/ GetInstallationToken
    \/ GenerateJWT_Err
    \/ GetInstallationToken_Request
    \/ Attempt_Create
    \/ Attempt_Send
    \/ Attempt_TransportError
    \/ Attempt_Response
    \/ Backoff
    \/ DoRequest_Return
    \/ GetInstallationToken_Return

ExchangeSpec == ExchangeInit /\ [][ExchangeNext]_vars

\* ======================= properties =======================

InExchange == {t \in Threads : pc[t] \in {"rn_exchange", "cn_exchange"}}
GetTokenDone(t) ==
    pc[t] = "done" /\ path[t] \in {"fast", "recheck", "renewed", "renewfail",
                                   "created", "createfail"}
Moved(t, from) == pc[t] = from /\ pc'[t] # from

\* C1: at most one call of the token exchange (GetInstallationToken) is in
\* flight for one TokenManager, whether started by createNewToken or renewToken.
C1_OneExchangeInFlight == Cardinality(InExchange) <= 1

\* C2: GetToken calls that run concurrently and all found the cache empty
\* share one exchange: those whose exchange has succeeded hold the same token.
C2_ConcurrentFirstCallsShareToken ==
    \A t1, t2 \in Threads :
        (pc[t1] \in {"cn_lock", "cn_insert"} /\ pc[t2] \in {"cn_lock", "cn_insert"})
            => local[t1] = local[t2]

\* C3: a renewToken caller that, holding the entry's renewal lock, finds the
\* entry's token not expired under the renew buffer returns that token and
\* starts no exchange; only a caller that still finds it expired goes on to
\* the exchange, and it holds the renewal lock while it does.
C3_RenewalCollapses ==
    [][\A t \in Threads :
          Moved(t, "rn_check") =>
              /\ entries[cached[t]].renewMutex = t
              /\ IF ~IsTokenExpired(entries[cached[t]].token, renewBuffer, now)
                 THEN /\ pc'[t] = "done"
                      /\ ret'[t] = entries[cached[t]].token
                      /\ ~err'[t]
                      /\ exch'[t] = 0
                      /\ issued' = issued
                      /\ t \notin InExchange'
                 ELSE pc'[t] = "rn_mark"]_vars

C3_Witness ==
    \E t1, t2 \in Threads :
        /\ t1 # t2
        /\ pc[t1] = "done" /\ path[t1] = "recheck" /\ exch[t1] = 0
        /\ pc[t2] = "done" /\ path[t2] = "renewed" /\ exch[t2] = 1
        /\ cached[t1] = cached[t2]
        /\ ret[t1] = ret[t2] /\ ret[t1] # NilToken

\* C4: when GetToken's expiry check finds the cached token not expired under
\* the renew buffer, the call returns that entry's cached token with no error
\* and without any exchange.
C4_ValidTokenServedFromCache ==
    [][\A t \in Threads :
          /\ (Moved(t, "gt_check")
                /\ ~IsTokenExpired(entries[cached[t]].token, renewBuffer, now))
             => /\ pc'[t] = "gt_return"
                /\ local'[t] = entries[cached[t]].token
                /\ exch'[t] = 0
                /\ issued' = issued
          /\ Moved(t, "gt_return")
             => /\ pc'[t] = "done"
                /\ ret'[t] \in {local[t], entries[cached[t]].token}
                /\ ret'[t] # NilToken
                /\ ~err'[t]
                /\ exch'[t] = 0
                /\ issued' = issued]_vars

C4_Witness ==
    \E t \in Threads :
        /\ pc[t] = "done" /\ path[t] = "fast"
        /\ ret[t] # NilToken /\ ret[t] = entries[cached[t]].token
        /\ exch[t] = 0

\* the loads and stores of shared fields the next step of goroutine t makes
\* (token_manager.go lines 48, 50-51, 65, 69, 77-79, 124-135)
Access(t) ==
    IF pc[t] = "gt_touch" THEN {[loc |-> << "lastUsed", cached[t] >>, write |-> TRUE]}
    ELSE IF pc[t] = "gt_check"
        THEN {[loc |-> << "token", cached[t] >>, write |-> FALSE],
              [loc |-> << "renewBuffer", 0 >>, write |-> FALSE]}
    ELSE IF pc[t] = "gt_return" THEN {[loc |-> << "token", cached[t] >>, write |-> FALSE]}
    ELSE IF pc[t] = "rn_check"
        THEN {[loc |-> << "token", cached[t] >>, write |-> FALSE],
              [loc |-> << "renewBuffer", 0 >>, write |-> FALSE]}
    ELSE IF pc[t] = "rn_mark" THEN {[loc |-> << "renewing", cached[t] >>, write |-> TRUE]}
    ELSE IF pc[t] = "rn_set_token" THEN {[loc |-> << "token", cached[t] >>, write |-> TRUE]}
    ELSE IF pc[t] = "rn_set_created"
        THEN {[loc |-> << "createdAt", cached[t] >>, write |-> TRUE]}
    ELSE IF pc[t] = "rn_clear" THEN {[loc |-> << "renewing", cached[t] >>, write |-> TRUE]}
    ELSE IF pc[t] = "st_read"
        THEN {[loc |-> << "renewBuffer", 0 >>, write |-> FALSE]}
             \cup {[loc |-> << f, cache[k] >>, write |-> FALSE] :
                      f \in {"token", "createdAt", "lastUsed", "renewing"},
                      k \in DOMAIN cache}
    ELSE {}

\* the locks goroutine t holds
Held(t) ==
    (IF t \in mutex.readers THEN {<< "RLock", 0 >>} ELSE {})
    \cup (IF mutex.writer = t THEN {<< "Lock", 0 >>} ELSE {})
    \cup {<< "renewMutex", e >> : e \in {x \in DOMAIN entries : entries[x].renewMutex = t}}

\* a lock of t and a lock of u that exclude each other
Excluded(t, u) ==
    \E l \in Held(t), m \in Held(u) :
        \/ l[1] = "Lock" /\ m[1] \in {"Lock", "RLock"}
        \/ m[1] = "Lock" /\ l[1] \in {"Lock", "RLock"}
        \/ l[1] = "renewMutex" /\ l = m

DueAtCheck(t) == path[t] \in {"recheck", "renewed", "renewfail"}

\* C5 as stated: a GetToken call whose expiry check found the token due has
\* attempted a renewal exchange by the time it returns.
C5_DueAlwaysExchanges ==
    \A t \in Threads : (pc[t] = "done" /\ DueAtCheck(t)) => exch[t] >= 1

\* C5 as amended: a GetToken call whose expiry check found the token due either
\* makes a renewal exchange, or finds under the renewal lock that the entry's
\* token is no longer expired and returns it without an exchange; when its
\* exchange fails it returns an error and no token.
C5_DueRenewsOrRechecks ==
    \A t \in Threads :
        (pc[t] = "done" /\ DueAtCheck(t)) =>
            \/ path[t] = "recheck" /\ exch[t] = 0 /\ ~err[t] /\ ret[t] # NilToken
            \/ path[t] = "renewed" /\ exch[t] = 1 /\ ~err[t] /\ ret[t] = local[t]
                                   /\ ret[t] # NilToken
            \/ path[t] = "renewfail" /\ exch[t] = 1 /\ err[t] /\ ret[t] = NilToken

C5_Witness ==
    \E t \in Threads :
        /\ pc[t] = "done" /\ path[t] = "renewfail"
        /\ err[t] /\ ret[t] = NilToken
        /\ entries[cached[t]].token # NilToken

\* C6: a failed exchange leaves the cache as it was: while a renewal exchange
\* is in flight and when it fails the entry keeps its token and createdAt, the
\* failure clears the renewing flag and evicts nothing; a failed first-time
\* exchange inserts nothing.
C6_FailedExchangeKeepsCache ==
    [][\A t \in Threads :
          /\ (pc[t] = "rn_exchange" /\ pc'[t] \in {"rn_exchange", "done"})
             => /\ entries'[cached[t]].token = entries[cached[t]].token
                /\ entries'[cached[t]].createdAt = entries[cached[t]].createdAt
                /\ entries'[cached[t]].token # NilToken
                /\ pc'[t] = "done" => /\ ~entries'[cached[t]].renewing
                                      /\ cache' = cache
                                      /\ Len(entries') = Len(entries)
          /\ (pc[t] = "cn_exchange" /\ pc'[t] = "done")
             => /\ cache' = cache
                /\ entries' = entries]_vars

C6_Witness ==
    \E t \in Threads :
        /\ pc[t] = "done" /\ path[t] = "renewfail"
        /\ Exists /\ cache[InstallationID] = cached[t]
        /\ entries[cached[t]].token # NilToken
        /\ ~entries[cached[t]].renewing

\* C7 as stated: IsTokenExpired(T, b) is true for a nil token and otherwise
\* exactly when now + b >= T.expiresAt.
C7_ExpiredIffAtOrAfter ==
    xRes # << >> =>
        xRes[1] = (xTok = NilToken \/ xNow + xBuf >= xTok.expiresAt)

\* C7 as amended: IsTokenExpired(T, b) is true for a nil token and otherwise
\* exactly when now + b is strictly after T.expiresAt; at now + b = T.expiresAt
\* the token is not expired.
C7_ExpiredIffStrictlyAfter ==
    xRes # << >> =>
        xRes[1] = (xTok = NilToken \/ xNow + xBuf > xTok.expiresAt)

C7_Witness ==
    /\ xRes = << FALSE >>
    /\ xTok # NilToken
    /\ xNow + xBuf = xTok.expiresAt

\* C8: a GetToken call that starts after InvalidateToken has returned never
\* returns a token that was obtained before that invalidation.
C8_NoTokenFromBeforeInvalidation ==
    \A t \in Threads :
        (GetTokenDone(t) /\ ret[t] # NilToken) => ret[t].id > mark[t]

\* C9: GetCacheStats after ClearCache, with no insertion in between, reports
\* total_cached = 0 and no per-entry detail.
C9_StatsAfterClearEmpty ==
    \A t \in Threads :
        (pc[t] = "done" /\ path[t] = "stats" /\ stats[t].afterClear)
            => stats[t].total = 0 /\ DOMAIN stats[t].details = {}

C9_Witness ==
    \E t \in Threads :
        /\ pc[t] = "done" /\ path[t] = "stats" /\ stats[t].afterClear
        /\ stats[t].total = 0
        /\ issued > 0 /\ Len(entries) > 0

\* C10: the renew buffer is always the value last given to SetRenewBuffer (or
\* the constructor), GetRenewBuffer returns it, the expiry checks of GetToken
\* and renewToken decide with it, and SetRenewBuffer changes nothing else of
\* the manager.
C10_SetThenGetRenewBuffer ==
    [][/\ renewBuffer' = lastSet'
       /\ lastSet' # lastSet => (cache' = cache /\ entries' = entries /\ mutex' = mutex)
       /\ \A t \in Threads :
            /\ (path[t] # "getbuf" /\ path'[t] = "getbuf") => retBuf'[t] = lastSet
            /\ Moved(t, "gt_check") =>
                 (pc'[t] = "rn_lock"
                    <=> IsTokenExpired(entries[cached[t]].token, lastSet, now))
            /\ Moved(t, "rn_check") =>
                 (pc'[t] = "rn_mark"
                    <=> IsTokenExpired(entries[cached[t]].token, lastSet, now))]_vars

C10_Witness ==
    \E t \in Threads :
        /\ pc[t] = "done" /\ path[t] = "getbuf"
        /\ lastSet <= 0
        /\ retBuf[t] = lastSet
        /\ Exists

\* C11: a manager built with renewal buffer b and only read since reports,
\* from GetRenewBuffer and from GetCacheStats, the buffer b, or 5 minutes
\* when b is zero, and GetCacheStats reports no cached token.
C11_FreshManager ==
    ctor.built =>
        \A t \in Threads :
            /\ (pc[t] = "done" /\ path[t] = "getbuf") =>
                   retBuf[t] = (IF ctor.arg = 0 THEN 5 ELSE ctor.arg)
            /\ (pc[t] = "done" /\ path[t] = "stats") =>
                   /\ stats[t].total = 0
                   /\ DOMAIN stats[t].details = {}
                   /\ stats[t].renew_buffer =
                        DurationString(IF ctor.arg = 0 THEN 5 ELSE ctor.arg)

\* C11 witness: a manager built with buffer zero has answered both reads
C11_Witness ==
    /\ ctor.built /\ ctor.arg = 0
    /\ \E t, u \in Threads :
          /\ pc[t] = "done" /\ path[t] = "getbuf" /\ retBuf[t] = 5
          /\ pc[u] = "done" /\ path[u] = "stats" /\ stats[u].total = 0

\* C12: no two goroutines are about to access the same shared field (an
\* entry's token, createdAt, lastUsed or renewing flag, or the manager's
\* renewBuffer), at least one of them writing, with no lock that excludes one
\* from the other.
C12_NoDataRace ==
    \A t, u \in Threads :
        t # u =>
            \A a \in Access(t), b \in Access(u) :
                (a.loc = b.loc /\ (a.write \/ b.write)) => Excluded(t, u)

\* C13: shouldRetry answers false for every 1xx, 2xx and 3xx status and for
\* every 4xx status other than 408 and 429, and true for 408, for 429 and for
\* every status from 500 up.
C13_ShouldRetryClasses ==
    sRes # << >> =>
        /\ (sCode < 400) => ~sRes[1]
        /\ (sCode \in 400..499 /\ sCode \notin {408, 429}) => ~sRes[1]
        /\ (sCode \in {408, 429}) => sRes[1]
        /\ (sCode >= 500) => sRes[1]

\* C13 witness: shouldRetry(408) has returned true
C13_Witness == sCode = 408 /\ sRes = << TRUE >>

\* C14: one doRequest call never makes more attempts than MaxRetries, for
\* every MaxRetries including 0, and never more than 3 with the defaults.
C14_AttemptsWithinCeiling ==
    /\ Attempts <= hClient.MaxRetries
    /\ hClient = DefaultHTTPClientConfig => Attempts <= 3

\* C15: when the server answers k retryable statuses and then a status that
\* is not retryable, doRequest returns that (k+1)-th response with no error
\* after k + 1 attempts; and it never gives up on retryable statuses before
\* the attempt ceiling.
C15_RetryUntilFinal ==
    DoRequestReturned =>
        /\ RetryablesThenFinal =>
               /\ hErr = NoError
               /\ hResp.status = hHist[Attempts].status
               /\ hN = Attempts - 1
        /\ (Attempts >= 1 /\ AllRetryable) => Attempts >= hClient.MaxRetries

\* C15 witness: 500, 500, 200 has given three attempts and the 200 response
C15_Witness ==
    /\ DoRequestReturned
    /\ Attempts = 3
    /\ hHist[1].status = 500 /\ hHist[2].status = 500 /\ hHist[3].status = 200
    /\ hErr = NoError /\ hResp.status = 200

ClientError(i) ==
    /\ hHist[i].kind # "inflight"
    /\ hHist[i].status \in 400..499
    /\ hHist[i].status \notin {408, 429}

\* C16: an attempt answered by a 4xx status other than 408 and 429 is made
\* once and is the last of the call, and the call ends in a failure whatever the
\* request declares, expected status or none.
C16_ClientErrorAlwaysFails ==
    \A i \in 1..Attempts :
        ClientError(i) =>
            /\ i = Attempts /\ DoRequestReturned
            /\ hPc = "done" => hOut.failure # "none"

\* C16 as the code has it: such an attempt is made once, is the last, and doRequest
\* returns its response with no error; DoRequest fails with that status when
\* the request declares an expected status, and with none declared it
\* decodes the body as the result and fails only when that decoding fails.
C16_ClientErrorFailsWhenExpected ==
    \A i \in 1..Attempts :
        ClientError(i) =>
            /\ i = Attempts /\ DoRequestReturned
            /\ hErr = NoError /\ hResp.status = hHist[i].status
            /\ (hPc = "done" /\ hReq.ExpectedStatus # 0) =>
                   /\ hOut.failure \in {"api", "api_undecoded"}
                   /\ hOut.status = hHist[i].status
            /\ (hPc = "done" /\ hReq.ExpectedStatus = 0) =>
                   (hOut.failure = "none" <=> hResp.body.json)

\* C16 witness: a 404 to a request expecting 200 has failed after one attempt
C16_Witness ==
    /\ hPc = "done" /\ Attempts = 1
    /\ hHist[1].status = 404
    /\ hReq.ExpectedStatus = 200
    /\ hOut.failure = "api" /\ hOut.status = 404

\* C17: with an expected status E declared, DoRequest succeeds only when the
\* response status is E; for a response of any other status it fails with
\* that status, with the message of the error envelope when the body decodes
\* as one, and leaves the caller's result untouched.
C17_ExpectedStatusDecides ==
    (hPc = "done" /\ hReq.ExpectedStatus # 0) =>
        /\ hOut.failure = "none" =>
               /\ hResp.status = hReq.ExpectedStatus
               /\ hOut.result = "populated"
        /\ (hErr = NoError /\ hResp.status # hReq.ExpectedStatus) =>
               /\ hOut.failure \in {"api", "api_undecoded"}
               /\ hOut.status = hResp.status
               /\ hOut.result = "untouched"
               /\ hResp.body.json =>
                      /\ hOut.failure = "api"
                      /\ hOut.message = hResp.body.message

\* C17 witness: a 404 "Not Found" to a request expecting 200
C17_Witness ==
    /\ hPc = "done" /\ hReq.ExpectedStatus = 200
    /\ hResp.status = 404 /\ hResp.body.json /\ hResp.body.message = "Not Found"
    /\ hOut.failure = "api" /\ hOut.status = 404 /\ hOut.message = "Not Found"
    /\ hOut.result = "untouched"

\* C18: when doRequest returns after attempts that all got a retryable
\* status, it returns no response and an error that carries the status of
\* the last attempt and an attempt count equal to the attempts made.
C18_ExhaustedCarriesLast ==
    (DoRequestReturned /\ Attempts >= 1 /\ AllRetryable) =>
        /\ hResp = NoResponse
        /\ hErr.kind = "retryable"
        /\ hErr.status = hHist[Attempts].status
        /\ hErr.attempts = Attempts

\* C18 witness: 429 then 500 with a ceiling of two attempts
C18_Witness ==
    /\ DoRequestReturned /\ Attempts = 2 /\ AllRetryable
    /\ hHist[1].status = 429 /\ hHist[2].status = 500
    /\ hErr.status = 500 /\ hErr.attempts = 2

TransportFailure(i) == hHist[i].kind \in {"create", "connect", "canceled"}

\* C19: an attempt that fails at the transport level (request construction,
\* connection, cancelled context) is the last attempt and doRequest returns
\* its error with no response; an attempt started after the context was
\* cancelled never yields a response, and the call then never succeeds.
C19_TransportFailureEnds ==
    /\ \A i \in 1..Attempts :
          TransportFailure(i) =>
              /\ i = Attempts
              /\ DoRequestReturned
              /\ hResp = NoResponse
              /\ hErr.kind = hHist[i].kind
              /\ hPc = "done" => hOut.failure = "request"
    /\ \A i \in 1..Attempts :
          hHist[i].ctxDone =>
              /\ hHist[i].kind \notin {"response", "retryable"}
              /\ hPc = "done" => hOut.failure # "none"

\* C19 witness: cancelled between two attempts, the second attempt ended the
\* call with the cancellation error
C19_Witness ==
    /\ hPc = "done" /\ Attempts = 2
    /\ hHist[1].kind = "retryable" /\ ~hHist[1].ctxDone
    /\ hHist[2].kind = "canceled" /\ hHist[2].ctxDone
    /\ hErr.kind = "canceled" /\ hOut.failure = "request"

\* C20: NewGitHubAppAuth returns an instance only when AppID and
\* InstallationID both are positive integers, and when it returns an error
\* it returns no instance.
C20_OnlyPositiveIDs ==
    aRes # << >> =>
        /\ aRes[1].err = "" =>
               /\ PositiveInteger(aCfg.AppID)
               /\ PositiveInteger(aCfg.InstallationID)
        /\ aRes[1].err # "" => aRes[1].auth = NilAuth

HoldsCacheLock(t) == t \in mutex.readers \/ mutex.writer = t

\* C21: a goroutine holds the cache-wide lock, shared or exclusive, only at
\* the lookup, the insert, the delete, the reset and the statistics read:
\* never during an exchange, never anywhere in a renewal, and in
\* createNewToken only after the exchange has returned.
C21_NoExchangeUnderCacheLock ==
    \A t \in Threads :
        /\ HoldsCacheLock(t) =>
               pc[t] \in {"gt_read", "cn_insert", "inv_delete", "clr_reset", "st_read"}
        /\ t \in InExchange => ~HoldsCacheLock(t)

\* C21 witness: one goroutine is in a renewal exchange while another holds
\* the read lock
C21_Witness ==
    \E t, u \in Threads :
        /\ pc[t] = "rn_exchange" /\ ~HoldsCacheLock(t)
        /\ pc[u] = "st_read" /\ u \in mutex.readers

\* goroutines that have stored the renewed token but not yet finished the
\* stores of lines 78-79
MidStore(e) ==
    {t \in Threads : pc[t] \in {"rn_set_created", "rn_clear"} /\ cached[t] = e}

\* C22: the three stores of a successful renewal are one step for every
\* observer: GetCacheStats never reads an entry while a renewal has stored
\* its new token and not yet the new createdAt and the cleared flag.
C22_RenewalStoresAtomic ==
    [][\A u \in Threads :
          (pc[u] = "st_read" /\ pc'[u] = "done") =>
              \A k \in DOMAIN cache : MidStore(cache[k]) = {}]_vars

\* C23: an entry's renewing flag is true only while a goroutine holds the
\* entry's renewal lock with its exchange in flight.
C23_RenewingOnlyDuringExchange ==
    \A e \in DOMAIN entries :
        entries[e].renewing =>
            \E t \in Threads : /\ entries[e].renewMutex = t
                                /\ cached[t] = e
                                /\ pc[t] = "rn_exchange"

\* C23 as the code has it: the flag is true exactly while a goroutine holds
\* the entry's renewal lock and is between setting the flag (line 69) and
\* clearing it (line 73 or 79), that is during the exchange and during the
\* stores of its result; otherwise, and on a new entry, it is false.
C23_RenewingOnlyDuringRenewal ==
    \A e \in DOMAIN entries :
        entries[e].renewing <=>
            \E t \in Threads :
                /\ entries[e].renewMutex = t
                /\ cached[t] = e
                /\ pc[t] \in {"rn_exchange", "rn_set_token", "rn_set_created", "rn_clear"}

\* C23 witness: the exchange has returned and the flag is still set while
\* its result is being stored under the renewal lock
C23_Witness ==
    \E t \in Threads :
        /\ pc[t] = "rn_set_created"
        /\ entries[cached[t]].renewing
        /\ entries[cached[t]].renewMutex = t

\* C24: a GetToken call that finds an entry stores lastUsed next, before the
\* expiry check, whatever the check and a renewal then give; the check
\* decides by token, buffer and time alone; and the steps of the read of a
\* cached token leave every token and createdAt as they are.
C24_LastUsedOnEveryRead ==
    [][\A t \in Threads :
          /\ (Moved(t, "gt_read") /\ Exists) => pc'[t] = "gt_touch"
          /\ (pc'[t] = "gt_check" /\ pc[t] # "gt_check") =>
                 /\ pc[t] = "gt_touch"
                 /\ entries'[cached[t]].lastUsed = now
          /\ (pc'[t] \in {"gt_return", "rn_lock"} /\ pc[t] # pc'[t]) =>
                 /\ pc[t] = "gt_check"
                 /\ pc'[t] = "gt_return" <=>
                        ~IsTokenExpired(entries[cached[t]].token, renewBuffer, now)
          /\ (pc[t] \in {"gt_touch", "gt_check", "gt_return"} /\ pc'[t] # pc[t]) =>
                 \A e \in DOMAIN entries :
                     /\ entries'[e].token = entries[e].token
                     /\ entries'[e].createdAt = entries[e].createdAt]_vars

\* C24 witness: a call whose renewal failed had recorded its use, later than
\* the entry's creation
C24_Witness ==
    \E t \in Threads :
        /\ pc[t] = "done" /\ path[t] = "renewfail"
        /\ entries[cached[t]].lastUsed = 1
        /\ entries[cached[t]].createdAt = 0

StatsStep(t) ==
    \/ pc[t] = "idle" /\ pc'[t] = "st_read"
    \/ pc[t] = "st_read" /\ pc'[t] = "done"

\* C25: the steps of GetCacheStats change no cache entry, no field of an
\* entry, not the renew buffer, start no exchange and touch the cache lock
\* in read mode only; the total it reports is the number of cached entries
\* at its read.
C25_StatsReadOnly ==
    [][\A t \in Threads :
          /\ StatsStep(t) =>
                 /\ cache' = cache /\ entries' = entries
                 /\ renewBuffer' = renewBuffer
                 /\ issued' = issued /\ exch' = exch
                 /\ mutex'.writer = mutex.writer /\ mutex.writer # t
                 /\ \A e \in DOMAIN entries : entries[e].renewMutex # t
          /\ (pc[t] = "st_read" /\ pc'[t] = "done") =>
                 /\ t \in mutex.readers /\ t \notin mutex'.readers
                 /\ stats'[t].total = Cardinality(DOMAIN cache)]_vars

\* C25 witness: statistics of a cache holding one entry were returned
C25_Witness ==
    \E t \in Threads :
        /\ pc[t] = "done" /\ path[t] = "stats"
        /\ stats[t].total = 1
        /\ Cardinality(DOMAIN cache) = 1

\* C26: after a check that found the token not due, GetToken can always
\* take its next step, whoever holds the entry's renewal lock, and it never
\* holds that lock itself.
C26_ValidReadDoesNotWait ==
    \A t \in Threads :
        /\ pc[t] = "gt_check" => ENABLED GetToken_Check(t)
        /\ pc[t] = "gt_return" => ENABLED GetToken_Return(t)
        /\ path[t] = "fast" =>
               \A e \in DOMAIN entries : entries[e].renewMutex # t

\* C26 witness: a call about to return a valid token while another
\* goroutine holds the same entry's renewal lock in its exchange
C26_Witness ==
    \E t, u \in Threads :
        /\ pc[t] = "gt_return" /\ path[t] = "fast"
        /\ pc[u] = "rn_exchange"
        /\ cached[u] = cached[t]
        /\ entries[cached[t]].renewMutex = u

\* C30: every cached entry holds a token some successful exchange issued,
\* never nil, so its expiry can always be read.
C30_CachedTokensAreIssued ==
    \A k \in DOMAIN cache :
        /\ entries[cache[k]].token # NilToken
        /\ entries[cache[k]].token.id \in 1..issued

\* C30 witness: a renewal has replaced the cached token by the token of a
\* later successful exchange
C30_Witness ==
    \E t \in Threads :
        /\ pc[t] = "done" /\ path[t] = "renewed"
        /\ Exists /\ cache[InstallationID] = cached[t]
        /\ entries[cached[t]].token = ret[t]
        /\ ret[t].id >= 2

\* C27: the delay before the k-th retry is RetryDelay x BackoffMultiplier^(k-1),
\* delays strictly increase, and no delay follows the last attempt.
C27_BackoffByMultiplier ==
    /\ \A k \in 1..Len(hDelays) :
          hDelays[k] = hClient.RetryDelay * hClient.BackoffMultiplier ^ (k - 1)
    /\ \A k \in 2..Len(hDelays) : hDelays[k] > hDelays[k - 1]
    /\ DoRequestReturned => Len(hDelays) = Attempts - 1

\* C28: one doRequest call never has more than one response body open, none
\* while it is between attempts, none after it returned an error, and none
\* once DoRequest has returned.
C28_BodiesClosed ==
    /\ Cardinality(hOpen) <= 1
    /\ hPc \in {"attempt", "inflight", "backoff"} => hOpen = {}
    /\ (DoRequestReturned /\ hErr # NoError) => hOpen = {}
    /\ hPc = "done" => hOpen = {}

\* C28 witness: retries were exhausted after two discarded responses and no
\* body is open
C28_Witness ==
    /\ DoRequestReturned /\ Attempts = 2 /\ AllRetryable
    /\ hErr.kind = "retryable"
    /\ hOpen = {}

\* C29: every request of an exchange carries the assertion signed in that
\* same call, after the signing, as a request expecting 201; a failed
\* signing sends nothing; a token is returned only for a final response of
\* status 201, and a failure of the executor returns an error and no token.
C29_ExchangeSignsThenPosts ==
    /\ gPc = "sign" => hHist = << >>
    /\ Attempts >= 1 =>
           /\ gPc \in {"request", "returned"}
           /\ hReq.AuthToken = gCall
           /\ hReq.ExpectedStatus = 201
    /\ gRes.err = "failed to generate JWT" => (hHist = << >> /\ ~gRes.token)
    /\ gRes.token =>
           /\ gRes.err = ""
           /\ hPc = "done" /\ hOut.failure = "none"
           /\ hResp.status = 201
    /\ (gPc = "returned" /\ hPc = "done" /\ hOut.failure # "none") =>
           (~gRes.token /\ gRes.err = "failed to get installation token")

\* C29 witness: a second exchange succeeded on a 201 with the assertion it
\* signed itself
C29_Witness ==
    /\ gCall = 2 /\ gPc = "returned"
    /\ gRes.token
    /\ hReq.AuthToken = 2
    /\ hResp.status = 201

\* the renewal locks goroutine t holds
HoldsRenewLock(t) == {e \in DOMAIN entries : entries[e].renewMutex = t}
\* goroutine t is inside a call, the last step of its Unlock included
InCall(t) == pc[t] \notin {"idle", "done"} \/ mutexW = t

\* C31: no goroutine holds the cache-wide lock and a renewal lock together,
\* none waits for one of the two while holding the other, and every call of
\* GetToken, GetCacheStats, InvalidateToken and ClearCache that has started,
\* waiting for a lock or not, returns in the end.
C31_NoDeadlock ==
    /\ [](\A t \in Threads :
            /\ ~(HoldsCacheLock(t) /\ HoldsRenewLock(t) # {})
            /\ mutex.writer = t => mutexW = t
            /\ pc[t] \in Waiting \cup {"rn_lock", "cn_lock"} =>
                   (~HoldsCacheLock(t) /\ HoldsRenewLock(t) = {}))
    /\ \A t \in Threads : InCall(t) ~> ~InCall(t)

\* C31 witness: a renewal has failed, and before its caller has taken the
\* error another goroutine holds the renewal lock of the same entry, has found
\* the token still due and has started its own exchange
C31_Witness ==
    \E t, u \in Threads :
        /\ t # u
        /\ pc[t] = "done" /\ path[t] = "renewfail"
        /\ pc[u] = "rn_exchange" /\ cached[u] = cached[t]
        /\ mark[u] = mark[t] /\ entries[cached[u]].lastUsed = now
        /\ HoldsRenewLock(u) = {cached[u]}

\* C32: a GetToken call never starts a second exchange, and when its exchange
\* has succeeded it returns the token of that exchange, whether or not this
\* token is already due under the renew buffer.
C32_OneExchangePerCall ==
    \A t \in Threads :
        /\ exch[t] <= 1
        /\ (pc[t] = "done" /\ path[t] \in {"renewed", "created"}) =>
               /\ exch[t] = 1
               /\ ~err[t]
               /\ ret[t] = local[t]
               /\ ret[t].id > mark[t]

\* C32 witness: with a buffer longer than every token lifetime, a renewal has
\* returned the token of its one exchange although that token is due at once
C32_Witness ==
    \E t \in Threads :
        /\ pc[t] = "done" /\ path[t] = "renewed"
        /\ exch[t] = 1
        /\ renewBuffer > MaxLife
        /\ ret[t] = local[t]
        /\ IsTokenExpired(ret[t], renewBuffer, now)
====
